---- MODULE Spec2Model ----
(***************************************************************************)
(* Chef AI integration layer (app.py): the JSON endpoint generate_recipe,  *)
(* the liveness endpoint health_check and the UI function                  *)
(* gradio_generate_all, each forwarding user text to the upstream recipe   *)
(* and image services.  A handler runs statement by statement; every       *)
(* upstream call answers with any outcome the network can produce.         *)
(***************************************************************************)
EXTENDS Integers, Sequences, FiniteSets, TLC

VARIABLES
    pc,               \* position of the call being served ("idle" between calls)
    handler,          \* which handler is running
    user_input,       \* request.user_input / the user_input argument
    response,         \* generate_recipe: local `response`
    recipe_response,  \* gradio_generate_all: local `recipe_response`
    recipe,           \* gradio_generate_all: local `recipe`
    image_response,   \* gradio_generate_all: local `image_response`
    image,            \* gradio_generate_all: local `image`
    stdout,           \* lines print()ed by the call
    sent,             \* upstream requests issued by the call, in order
    recOut,           \* what the recipe upstream answered to the call
    imgOut,           \* what the image upstream answered to the call
    result,           \* how the call ended: a returned value or an escaped exception
    earlier           \* an earlier completed call, kept for comparison

vars == <<pc, handler, user_input, response, recipe_response, recipe,
          image_response, image, stdout, sent, recOut, imgOut, result, earlier>>

locals == <<response, recipe_response, recipe, image_response, image>>

None == [kind |-> "None"]

(***************************************************************************)
(* Configuration and input domains                                         *)
(***************************************************************************)
RECIPE_API_URL == "https://pys7h0wkhesomy-8888.proxy.runpod.net/generate-recipe"
IMAGE_API_URL == "https://pys7h0wkhesomy-8888.proxy.runpod.net/generate-image"

\* RecipeRequest.user_input is any str; it is not validated, so "" is accepted.
UserInputs == {"chicken and rice", ""}

\* Response bodies the recipe upstream may send.
BodyRecipe == "{\"recipe\": \"Step 1...\"}"
BodyRecipeExtra == "{\"recipe\": \"Step 1...\", \"servings\": \"2\"}"
BodyNoRecipe == "{\"detail\": \"Internal Server Error\"}"
BodyList == "[\"Step 1...\"]"
BodyPlain == "server error"
RecipeBodies == {BodyRecipe, BodyRecipeExtra, BodyNoRecipe, BodyList, BodyPlain}

\* Response bodies the image upstream may send.
BytesPng == "\\x89PNG...food"
BytesGarbage == "upstream unavailable"
ImageBodies == {BytesPng, BytesGarbage}

RecipeStatuses == {200, 201, 500}
ImageStatuses == {200, 500}

ConnectionError == [type |-> "ConnectionError", msg |-> "Connection refused"]
JSONDecodeError ==
    [type |-> "JSONDecodeError", msg |-> "Expecting value: line 1 column 1 (char 0)"]
AttributeError ==
    [type |-> "AttributeError", msg |-> "'list' object has no attribute 'get'"]
UnidentifiedImageError ==
    [type |-> "UnidentifiedImageError", msg |-> "cannot identify image file"]

Raise(e) == [kind |-> "raise", exc |-> e]
Return(v) == [kind |-> "return", value |-> v]
Response(s, b) == [kind |-> "Response", status_code |-> s, body |-> b]

\* requests.post either raises or hands back a Response.
RecipeOutcomes ==
    {Raise(ConnectionError)} \cup {Response(s, b) : s \in RecipeStatuses, b \in RecipeBodies}
ImageOutcomes ==
    {Raise(ConnectionError)} \cup {Response(s, b) : s \in ImageStatuses, b \in ImageBodies}

(***************************************************************************)
(* Library conversions                                                     *)
(***************************************************************************)
Dict(items) == [type |-> "dict", items |-> items]
List(items) == [type |-> "list", items |-> items]

\* response.json(): the parsed body, or JSONDecodeError for a body that is not JSON.
ResponseJson(text) ==
    CASE text = BodyRecipe -> Return(Dict([recipe |-> "Step 1..."]))
      [] text = BodyRecipeExtra -> Return(Dict([recipe |-> "Step 1...", servings |-> "2"]))
      [] text = BodyNoRecipe -> Return(Dict([detail |-> "Internal Server Error"]))
      [] text = BodyList -> Return(List("0" :> "Step 1..."))
      [] OTHER -> Raise(JSONDecodeError)

\* Image.open(io.BytesIO(content)): the decoded image, or UnidentifiedImageError.
ImageOpen(content) ==
    CASE content = BytesPng ->
            Return([kind |-> "Image", src |-> "open", format |-> "PNG", data |-> content])
      [] OTHER -> Raise(UnidentifiedImageError)

\* json_value.get("recipe", default): only a mapping has .get.
GetRecipe(parsed, default) ==
    IF parsed.type # "dict" THEN Raise(AttributeError)
    ELSE IF "recipe" \in DOMAIN parsed.items THEN Return(parsed.items.recipe)
    ELSE Return(default)

(***************************************************************************)
(* Handlers                                                                *)
(***************************************************************************)
\* Mutant: the caption argument is dropped and the default caption is drawn.
create_placeholder_image_DefaultCaption(text) ==
    [kind |-> "Image", src |-> "new", mode |-> "RGB", size |-> <<512, 512>>,
     color |-> <<240, 240, 240>>,
     draw |-> <<[xy |-> <<10, 250>>, text |-> "No Image", fill |-> <<0, 0, 0>>]>>]

create_placeholder_image(text) ==
    [kind |-> "Image", src |-> "new", mode |-> "RGB", size |-> <<512, 512>>,
     color |-> <<240, 240, 240>>,
     draw |-> <<[xy |-> <<10, 250>>, text |-> text, fill |-> <<0, 0, 0>>]>>]

RecipeRequestSent(u) == [url |-> RECIPE_API_URL, json |-> [user_input |-> u]]
ImageRequestSent(u) == [url |-> IMAGE_API_URL, json |-> [prompt |-> u]]

Idle ==
    /\ pc = "idle"
    /\ handler = "none"

Enter(h, u, at) ==
    /\ Idle
    /\ handler' = h
    /\ user_input' = u
    /\ pc' = at
    /\ UNCHANGED <<locals, stdout, sent, recOut, imgOut, result, earlier>>

\* GET /health
health_check ==
    /\ Idle
    /\ handler' = "health_check"
    /\ result' = Return(Dict([status |-> "ok"]))
    /\ pc' = "done"
    /\ UNCHANGED <<user_input, locals, stdout, sent, recOut, imgOut, earlier>>

\* POST /generate-recipe arrives with a validated RecipeRequest.
generate_recipe_Call == \E u \in UserInputs : Enter("generate_recipe", u, "gr_post")

\* Mutant: a request that raised is sent a second time.
generate_recipe_Post_Retry ==
    /\ pc = "gr_post"
    /\ \E o \in RecipeOutcomes, again \in RecipeOutcomes :
          LET final == IF o.kind = "raise" THEN again ELSE o
          IN  /\ sent' = IF o.kind = "raise"
                            THEN sent \o <<RecipeRequestSent(user_input),
                                           RecipeRequestSent(user_input)>>
                            ELSE Append(sent, RecipeRequestSent(user_input))
              /\ recOut' = final
              /\ IF final.kind = "raise"
                    THEN /\ result' = final
                         /\ pc' = "done"
                         /\ UNCHANGED response
                    ELSE /\ response' = final
                         /\ pc' = "gr_status"
                         /\ UNCHANGED result
    /\ UNCHANGED <<handler, user_input, recipe_response, recipe, image_response,
                   image, stdout, imgOut, earlier>>

\* response = requests.post(RECIPE_API_URL, ...), outside any try.
generate_recipe_Post ==
    /\ pc = "gr_post"
    /\ \E o \in RecipeOutcomes :
          /\ sent' = Append(sent, RecipeRequestSent(user_input))
          /\ recOut' = o
          /\ IF o.kind = "raise"
                THEN /\ result' = o
                     /\ pc' = "done"
                     /\ UNCHANGED response
                ELSE /\ response' = o
                     /\ pc' = "gr_status"
                     /\ UNCHANGED result
    /\ UNCHANGED <<handler, user_input, recipe_response, recipe, image_response,
                   image, stdout, imgOut, earlier>>

\* Mutant: the status test is `response.ok` (any status below 400).
generate_recipe_Result_Ok(resp) ==
    IF resp.status_code < 400
        THEN ResponseJson(resp.body)
        ELSE Return(Dict([error |-> "Failed to generate recipe", details |-> resp.body]))

\* Mutant: on success only the recipe field of the parsed body is passed on.
generate_recipe_Result_RecipeOnly(resp) ==
    IF resp.status_code = 200
        THEN LET parsed == ResponseJson(resp.body)
             IN  IF parsed.kind = "return" /\ parsed.value.type = "dict"
                                           /\ "recipe" \in DOMAIN parsed.value.items
                    THEN Return(Dict([recipe |-> parsed.value.items.recipe]))
                    ELSE parsed
        ELSE Return(Dict([error |-> "Failed to generate recipe", details |-> resp.body]))

\* if response.status_code == 200: return response.json()
\* return {"error": ..., "details": response.text}
generate_recipe_Result(resp) ==
    IF resp.status_code = 200
        THEN ResponseJson(resp.body)
        ELSE Return(Dict([error |-> "Failed to generate recipe", details |-> resp.body]))

\* Mutant: a module-level memo of the last served call rejects a repeated input.
generate_recipe_Return_Memo ==
    /\ pc = "gr_status"
    /\ result' = IF earlier.handler = "generate_recipe" /\ earlier.user_input = user_input
                    THEN Return(Dict([error |-> "Failed to generate recipe",
                                      details |-> "duplicate request"]))
                    ELSE generate_recipe_Result(response)
    /\ pc' = "done"
    /\ UNCHANGED <<handler, user_input, locals, stdout, sent, recOut, imgOut, earlier>>

generate_recipe_Return ==
    /\ pc = "gr_status"
    /\ result' = generate_recipe_Result(response)
    /\ pc' = "done"
    /\ UNCHANGED <<handler, user_input, locals, stdout, sent, recOut, imgOut, earlier>>

\* The UI form is submitted.
gradio_generate_all_Call ==
    \E u \in UserInputs : Enter("gradio_generate_all", u, "ui_recipe_post")

RecipeFailed(e) == "Recipe generation failed: " \o e.msg

\* Mutant: one try block wraps both halves, so a recipe failure skips the image call.
gradio_RecipePost_WrapAll ==
    /\ pc = "ui_recipe_post"
    /\ \E o \in RecipeOutcomes :
          /\ sent' = Append(sent, RecipeRequestSent(user_input))
          /\ recOut' = o
          /\ IF o.kind = "raise"
                THEN /\ recipe' = RecipeFailed(o.exc)
                     /\ image' = create_placeholder_image("Image generation failed")
                     /\ pc' = "ui_return"
                     /\ UNCHANGED recipe_response
                ELSE /\ recipe_response' = o
                     /\ pc' = "ui_recipe_json"
                     /\ UNCHANGED <<recipe, image>>
    /\ UNCHANGED <<handler, user_input, response, image_response, stdout,
                   imgOut, result, earlier>>

\* try: recipe_response = requests.post(RECIPE_API_URL, ...)
\* except Exception as e: recipe = f"Recipe generation failed: {e}"
gradio_RecipePost ==
    /\ pc = "ui_recipe_post"
    /\ \E o \in RecipeOutcomes :
          /\ sent' = Append(sent, RecipeRequestSent(user_input))
          /\ recOut' = o
          /\ IF o.kind = "raise"
                THEN /\ recipe' = RecipeFailed(o.exc)
                     /\ pc' = "ui_image_post"
                     /\ UNCHANGED recipe_response
                ELSE /\ recipe_response' = o
                     /\ pc' = "ui_recipe_json"
                     /\ UNCHANGED recipe
    /\ UNCHANGED <<handler, user_input, response, image_response, image, stdout,
                   imgOut, result, earlier>>

KeyError == [type |-> "KeyError", msg |-> "'recipe'"]

\* Mutant: the field is read with ["recipe"], which raises when it is absent.
gradio_RecipeText_Index(resp) ==
    LET parsed == ResponseJson(resp.body)
    IN  IF parsed.kind = "raise" THEN RecipeFailed(parsed.exc)
        ELSE IF parsed.value.type # "dict" THEN RecipeFailed(AttributeError)
        ELSE IF "recipe" \in DOMAIN parsed.value.items THEN parsed.value.items.recipe
        ELSE RecipeFailed(KeyError)

\* recipe = recipe_response.json().get("recipe", "No recipe returned."), inside the try.
gradio_RecipeText(resp) ==
    LET parsed == ResponseJson(resp.body)
        got == IF parsed.kind = "raise" THEN parsed
               ELSE GetRecipe(parsed.value, "No recipe returned.")
    IN  IF got.kind = "raise" THEN RecipeFailed(got.exc) ELSE got.value

gradio_RecipeJson ==
    /\ pc = "ui_recipe_json"
    /\ recipe' = gradio_RecipeText(recipe_response)
    /\ pc' = "ui_image_post"
    /\ UNCHANGED <<handler, user_input, response, recipe_response, image_response,
                   image, stdout, sent, recOut, imgOut, result, earlier>>

ImageFailedLine(e) == "Image generation failed: " \o e.msg

\* try: image_response = requests.post(IMAGE_API_URL, ...)
\* except Exception as e: print(...); image = create_placeholder_image(...)
gradio_ImagePost ==
    /\ pc = "ui_image_post"
    /\ \E o \in ImageOutcomes :
          /\ sent' = Append(sent, ImageRequestSent(user_input))
          /\ imgOut' = o
          /\ IF o.kind = "raise"
                THEN /\ stdout' = Append(stdout, ImageFailedLine(o.exc))
                     /\ image' = create_placeholder_image("Image generation failed")
                     /\ pc' = "ui_return"
                     /\ UNCHANGED image_response
                ELSE /\ image_response' = o
                     /\ pc' = "ui_image_open"
                     /\ UNCHANGED <<image, stdout>>
    /\ UNCHANGED <<handler, user_input, response, recipe_response, recipe, recOut,
                   result, earlier>>

\* image = Image.open(io.BytesIO(image_response.content)), inside the try.
gradio_ImageOpen ==
    /\ pc = "ui_image_open"
    /\ LET opened == ImageOpen(image_response.body)
       IN  IF opened.kind = "raise"
              THEN /\ stdout' = Append(stdout, ImageFailedLine(opened.exc))
                   /\ image' = create_placeholder_image("Image generation failed")
              ELSE /\ image' = opened.value
                   /\ UNCHANGED stdout
    /\ pc' = "ui_return"
    /\ UNCHANGED <<handler, user_input, response, recipe_response, recipe,
                   image_response, sent, recOut, imgOut, result, earlier>>

\* return recipe, image
gradio_Return ==
    /\ pc = "ui_return"
    /\ result' = Return([recipe |-> recipe, image |-> image])
    /\ pc' = "done"
    /\ UNCHANGED <<handler, user_input, locals, stdout, sent, recOut, imgOut, earlier>>

\* No call has been kept yet.
NoCall ==
    [handler |-> "none", user_input |-> "", recOut |-> None, imgOut |-> None,
     sent |-> <<>>, result |-> None]

\* What a finished call looked like from outside.
CallRecord ==
    [handler |-> handler, user_input |-> user_input, recOut |-> recOut,
     imgOut |-> imgOut, sent |-> sent, result |-> result]

\* The framework delivers the result; the call's frame is discarded.
Reply ==
    /\ pc = "done"
    /\ pc' = "idle"
    /\ handler' = "none"
    /\ user_input' = ""
    /\ response' = None
    /\ recipe_response' = None
    /\ recipe' = ""
    /\ image_response' = None
    /\ image' = None
    /\ stdout' = <<>>
    /\ sent' = <<>>
    /\ recOut' = None
    /\ imgOut' = None
    /\ result' = None
    /\ \E keep \in BOOLEAN : earlier' = IF keep THEN CallRecord ELSE earlier

Init ==
    /\ pc = "idle"
    /\ handler = "none"
    /\ user_input = ""
    /\ response = None
    /\ recipe_response = None
    /\ recipe = ""
    /\ image_response = None
    /\ image = None
    /\ stdout = <<>>
    /\ sent = <<>>
    /\ recOut = None
    /\ imgOut = None
    /\ result = None
    /\ earlier = NoCall

Next ==
    \/ health_check
    \/ generate_recipe_Call
    \/ generate_recipe_Post
    \/ generate_recipe_Return
    \/ gradio_generate_all_Call
    \/ gradio_RecipePost
    \/ gradio_RecipeJson
    \/ gradio_ImagePost
    \/ gradio_ImageOpen
    \/ gradio_Return
    \/ Reply

Spec == Init /\ [][Next]_vars

(***************************************************************************)
(* Properties                                                              *)
(***************************************************************************)
DoneIn(h) == pc = "done" /\ handler = h

ErrorShape(v) == v.type = "dict" /\ DOMAIN v.items = {"error", "details"}

Exceptions ==
    {ConnectionError, JSONDecodeError, AttributeError, UnidentifiedImageError}

FailureStrings == {"Recipe generation failed: " \o e.msg : e \in Exceptions}

\* C1: for every outcome of the upstream recipe call, generate_recipe returns
\* either the upstream payload or the two-field error shape {error, details};
\* no exception escapes the handler.
C1_NeverRaises ==
    DoneIn("generate_recipe") =>
        /\ result.kind = "return"
        /\ \/ ErrorShape(result.value)
           \/ /\ recOut.kind = "Response"
              /\ result = ResponseJson(recOut.body)

\* C2: gradio_generate_all returns without raising and its second element is
\* an image: the decoded upstream image when decoding succeeds, otherwise the
\* 512x512 placeholder with background (240,240,240) and the caption
\* "Image generation failed".
C2_ImageAlwaysPresent ==
    DoneIn("gradio_generate_all") =>
        /\ result.kind = "return"
        /\ result.value.image # None
        /\ result.value.image.kind = "Image"
        /\ IF imgOut.kind = "Response" /\ ImageOpen(imgOut.body).kind = "return"
              THEN result.value.image = ImageOpen(imgOut.body).value
              ELSE /\ result.value.image.src = "new"
                   /\ result.value.image.size = <<512, 512>>
                   /\ result.value.image.color = <<240, 240, 240>>
                   /\ Len(result.value.image.draw) = 1
                   /\ result.value.image.draw[1].text = "Image generation failed"

C2_Witness ==
    /\ DoneIn("gradio_generate_all")
    /\ imgOut = Raise(ConnectionError)
    /\ result.value.image.src = "new"

\* C3: the two halves of gradio_generate_all are isolated: the image request
\* is issued whatever the recipe half did, and of two calls that got the same
\* image outcome (recipe outcome) the returned images (recipe texts) are equal
\* whatever the other half got.
C3_HalvesIsolated ==
    DoneIn("gradio_generate_all") =>
        /\ sent = <<RecipeRequestSent(user_input), ImageRequestSent(user_input)>>
        /\ imgOut \in ImageOutcomes
        /\ result.kind = "return"
        /\ earlier.handler = "gradio_generate_all" =>
              /\ earlier.result.kind = "return"
              /\ earlier.imgOut = imgOut =>
                    earlier.result.value.image = result.value.image
              /\ earlier.recOut = recOut =>
                    earlier.result.value.recipe = result.value.recipe

C3_Witness ==
    /\ DoneIn("gradio_generate_all")
    /\ recOut.kind = "raise"
    /\ imgOut.kind = "Response"
    /\ result.value.image.src = "open"
    /\ earlier.handler = "gradio_generate_all"
    /\ earlier.imgOut = imgOut
    /\ earlier.recOut.kind = "Response"

\* C4: when the image upstream answers with a non-2xx status, the image
\* returned by gradio_generate_all is the placeholder, whatever the body holds.
C4_Non2xxGivesPlaceholder ==
    (/\ DoneIn("gradio_generate_all")
     /\ imgOut.kind = "Response"
     /\ imgOut.status_code \notin 200..299) =>
        /\ result.kind = "return"
        /\ result.value.image = create_placeholder_image("Image generation failed")

\* C5: in UI mode, when the recipe upstream fails by connection error or by a
\* non-200 status, the returned recipe text is a "Recipe generation failed: ..."
\* string, whatever body came with the status.
C5_FailureIsCaptioned ==
    (/\ DoneIn("gradio_generate_all")
     /\ (recOut.kind = "raise" \/ recOut.status_code # 200)) =>
        /\ result.kind = "return"
        /\ result.value.recipe \in FailureStrings

\* C6: on a status other than 200, generate_recipe returns exactly
\* {"error": "Failed to generate recipe", "details": <raw response text>} and
\* does not raise.
C6_Non200ErrorShape ==
    (/\ DoneIn("generate_recipe")
     /\ recOut.kind = "Response"
     /\ recOut.status_code # 200) =>
        result = [kind |-> "return",
                  value |-> [type |-> "dict",
                             items |-> [error |-> "Failed to generate recipe",
                                        details |-> recOut.body]]]

C6_Witness ==
    /\ DoneIn("generate_recipe")
    /\ recOut = Response(500, "server error")
    /\ result.kind = "return"
    /\ result.value.items.details = "server error"

\* C7: on status 200 with a JSON body, generate_recipe returns the parsed body
\* unmodified, whatever keys it holds and with or without a recipe field.
C7_PassThrough ==
    (/\ DoneIn("generate_recipe")
     /\ recOut.kind = "Response"
     /\ recOut.status_code = 200
     /\ ResponseJson(recOut.body).kind = "return") =>
        /\ result = ResponseJson(recOut.body)
        /\ recOut.body = BodyRecipe =>
              result.value = [type |-> "dict", items |-> [recipe |-> "Step 1..."]]
        /\ recOut.body = BodyRecipeExtra =>
              DOMAIN result.value.items = {"recipe", "servings"}

C7_Witness ==
    /\ DoneIn("generate_recipe")
    /\ recOut = Response(200, BodyRecipeExtra)
    /\ result.kind = "return"
    /\ result.value.items.servings = "2"

IsMapping(o) ==
    /\ o.kind = "Response"
    /\ ResponseJson(o.body).kind = "return"
    /\ ResponseJson(o.body).value.type = "dict"

HasRecipe(o) == "recipe" \in DOMAIN ResponseJson(o.body).value.items

\* C8 as stated: in UI mode, for a JSON mapping the recipe text is the recipe
\* field when present and the default "No recipe returned" when absent.
C8_DefaultWithoutStop ==
    (DoneIn("gradio_generate_all") /\ IsMapping(recOut)) =>
        /\ result.kind = "return"
        /\ result.value.recipe =
              IF HasRecipe(recOut) THEN ResponseJson(recOut.body).value.items.recipe
              ELSE "No recipe returned"

\* C8 as amended: in UI mode, for a JSON mapping the recipe text is the recipe
\* field when present and the default "No recipe returned." (with its full
\* stop) when absent; a missing field yields neither a failure string nor an
\* exception.
C8_DefaultRecipe ==
    (DoneIn("gradio_generate_all") /\ IsMapping(recOut)) =>
        /\ result.kind = "return"
        /\ result.value.recipe \notin FailureStrings
        /\ result.value.recipe =
              IF HasRecipe(recOut) THEN ResponseJson(recOut.body).value.items.recipe
              ELSE "No recipe returned."

C8_Witness ==
    /\ DoneIn("gradio_generate_all")
    /\ IsMapping(recOut)
    /\ ~HasRecipe(recOut)
    /\ result.value.recipe = "No recipe returned."

\* C9: two calls of the same handler with the same user_input that got the
\* same upstream outcomes issue the same requests and end the same way, and
\* between calls nothing of a served call is left behind.
C9_Deterministic ==
    /\ (/\ pc = "done"
        /\ earlier.handler = handler
        /\ earlier.user_input = user_input
        /\ earlier.recOut = recOut
        /\ earlier.imgOut = imgOut) =>
            /\ earlier.result = result
            /\ earlier.sent = sent
    /\ pc = "idle" =>
            /\ locals = <<None, None, "", None, None>>
            /\ <<stdout, sent, recOut, imgOut, result>> = <<<<>>, <<>>, None, None, None>>

C9_Witness ==
    /\ DoneIn("generate_recipe")
    /\ earlier.handler = "generate_recipe"
    /\ earlier.user_input = user_input
    /\ earlier.recOut = recOut
    /\ recOut.kind = "Response"

\* C10: a POST /generate-recipe call issues exactly one request, to the recipe
\* upstream, carrying {"user_input": <its user_input>}, and none to the image
\* upstream, also when the attempt fails; GET /health issues no request and
\* returns {"status": "ok"}.
C10_SingleAttempt ==
    /\ handler = "generate_recipe" =>
          /\ Len(sent) <= 1
          /\ \A i \in 1..Len(sent) : sent[i].url # IMAGE_API_URL
    /\ DoneIn("generate_recipe") =>
          sent = <<[url |-> RECIPE_API_URL, json |-> [user_input |-> user_input]]>>
    /\ DoneIn("health_check") =>
          /\ sent = <<>>
          /\ recOut = None /\ imgOut = None
          /\ result = [kind |-> "return",
                       value |-> [type |-> "dict", items |-> [status |-> "ok"]]]

C10_Witness ==
    /\ DoneIn("generate_recipe")
    /\ (recOut.kind = "raise" \/ recOut.status_code # 200)
    /\ Len(sent) = 1

====
